---- MODULE Spec2Model ----
(***************************************************************************)
(* State-machine model of SequenceOrchestrator                             *)
(* (src/modules/communication/sequences/orchestration/                     *)
(*  SequenceOrchestrator.ts): the admission pipeline startSequence, the    *)
(* queue drainer processSequenceQueue and their helpers.                   *)
(*                                                                         *)
(* The collaborators injected through the constructor (registry,           *)
(* validator, utilities, delegator, execution queue, executor, statistics, *)
(* event bus) have no source under src/; they are modelled from spec.md    *)
(* sections 3-4 and are marked as such below.                              *)
(*                                                                         *)
(* JavaScript runs one cooperative thread, so one action is one            *)
(* synchronous run: a whole startSequence call (including the synchronous  *)
(* prefix of the drain it starts), an executor settlement, or a drain      *)
(* continuation after its await.  Bus listeners do not call back into the  *)
(* orchestrator.                                                           *)
(*                                                                         *)
(* Time is not represented: every call falls inside the dedup window W,    *)
(* and queuedAt / wait times appear only as the number of wait-time        *)
(* updates.  The Date.now()/Math.random() suffix of a request id is a      *)
(* nonce that is fresh per call.                                           *)
(***************************************************************************)
EXTENDS Integers, Sequences, FiniteSets, TLC

\* ------------------------------------------------------------------------
\* Bounds and input sets
\* ------------------------------------------------------------------------

\* Number of startSequence calls explored by Spec.
MaxCalls == 2

\* Number of startSequence calls explored by SpecSerial.
MaxSerialCalls == 3

\* Number of startSequence calls explored by SpecPriority.
MaxPriorityCalls == 4

\* Number of startSequence calls explored by SpecJump.
MaxJumpCalls == 3

\* Number of startSequence calls explored by SpecFailure.
MaxFailureCalls == 2

\* Number of startSequence calls explored by SpecOverride.
MaxOverrideCalls == 2

\* Number of startSequence calls explored by SpecLive.
MaxLiveCalls == 2

\* Number of startSequence calls explored by SpecMetadata.
MaxMetadataCalls == 2

\* Number of startSequence calls explored by SpecContext.
MaxContextCalls == 2

\* Number of startSequence calls explored by SpecFault.
MaxFaultCalls == 2

\* Number of startSequence calls explored by SpecConversion.
MaxConversionCalls == 2

\* Number of delegator consultations explored by SpecConversion.
MaxConflictChecks == 3

\* Number of startSequence calls explored by SpecDrain.
MaxDrainStartCalls == 2

\* Number of processSequenceQueue calls made from outside the orchestrator.
MaxDrainCalls == 1

\* Sequence names as dotted segments: <<"Canvas", "drop-symphony">> is
\* "Canvas.drop-symphony".
Names == { <<"Canvas", "drop-symphony">>, <<"Library", "load-symphony">> }

\* Caller data: mappings from keys to values.
\* Identifiers inside data are segment sequences too, like names.
NoData == [k \in {} |-> << >>]
DataSet == { NoData, [elementId |-> <<"elem-7">>] }

HIGH == "HIGH"
NORMAL == "NORMAL"
CHAINED == "CHAINED"
Priorities == { HIGH, NORMAL, CHAINED }

\* Resources for which the delegator is configured in strict mode.
StrictResources == { <<"elem-7">> }

\* ------------------------------------------------------------------------
\* State
\* ------------------------------------------------------------------------
VARIABLES
  registry,        \* SequenceRegistry: names currently registered
  dedupWindow,     \* SequenceValidator / DedupWindow: recent hashes
  ownership,       \* ResourceDelegator: owned resourceId -> owner
  cancelFlags,     \* ResourceDelegator/Executor: instances flagged by override
  instanceCounter, \* SequenceUtilities: monotonic instance counter
  queue,           \* ExecutionQueue contents, head first
  running,         \* SequenceExecutor: << >> when idle, else <<request>>
  conts,           \* drain continuations whose await has settled, FIFO
  stats,           \* StatisticsManager counters
  bus,             \* EventBus: events emitted so far, in order
  dequeues,        \* history: requests returned by dequeue, in order, and
                   \* whether each was handed to the executor
  invocations,     \* history: number of calls made to each collaborator
  drainResults,    \* history: values the promises returned by
                   \* processSequenceQueue resolved with, in order
  context,         \* << >>, or the outcome of the last createExecutionContext
  drainCalls,      \* history: number of processSequenceQueue calls made
                   \* from outside the orchestrator
  conversion,      \* << >>, or the last delegator answer converted by
                   \* checkResourceConflicts, with its conversion
  raising,         \* the collaborator operation that raises when called,
                   \* "none" when the collaborators raise nothing
  calls            \* history: startSequence calls with their results

vars == << registry, dedupWindow, ownership, cancelFlags, instanceCounter,
           queue, running, conts, stats, bus, dequeues, invocations,
           drainResults, drainCalls, context, conversion, raising, calls >>

Range(s) == { s[i] : i \in DOMAIN s }

\* The mutable state as one record, threaded through the operators that
\* model methods.
State ==
  [ registry |-> registry, dedupWindow |-> dedupWindow,
    ownership |-> ownership, cancelFlags |-> cancelFlags,
    instanceCounter |-> instanceCounter, queue |-> queue,
    running |-> running, conts |-> conts, stats |-> stats, bus |-> bus,
    dequeues |-> dequeues, invocations |-> invocations,
    drainResults |-> drainResults, context |-> context,
    drainCalls |-> drainCalls, conversion |-> conversion,
    raising |-> raising ]

Install(st) ==
  /\ registry' = st.registry
  /\ dedupWindow' = st.dedupWindow
  /\ ownership' = st.ownership
  /\ cancelFlags' = st.cancelFlags
  /\ instanceCounter' = st.instanceCounter
  /\ queue' = st.queue
  /\ running' = st.running
  /\ conts' = st.conts
  /\ stats' = st.stats
  /\ bus' = st.bus
  /\ dequeues' = st.dequeues
  /\ invocations' = st.invocations
  /\ drainResults' = st.drainResults
  /\ context' = st.context
  /\ conversion' = st.conversion
  /\ drainCalls' = st.drainCalls
  /\ raising' = st.raising

\* ------------------------------------------------------------------------
\* Collaborators (no source under src/; modelled from spec.md)
\* ------------------------------------------------------------------------

\* EventBus.emit (spec 4.1): synchronous dispatch, recorded in order.
emit(st, event) == [st EXCEPT !.bus = Append(@, event)]

Event(type, sequenceName, requestId, reason, queueLength) ==
  [ type |-> type, sequenceName |-> sequenceName, requestId |-> requestId,
    reason |-> reason, queueLength |-> queueLength ]

SEQUENCE_QUEUED == "sequence:queued"
SEQUENCE_STARTED == "sequence:started"
SEQUENCE_COMPLETED == "sequence:completed"
SEQUENCE_FAILED == "sequence:failed"
SEQUENCE_CANCELLED == "sequence:cancelled"
TerminalTypes == { SEQUENCE_COMPLETED, SEQUENCE_FAILED, SEQUENCE_CANCELLED }

\* SequenceRegistry.get (spec 4.2): << >> when the name is not registered,
\* else <<sequence>>; a sequence is represented by its name.
registryGet(st, sequenceName) ==
  IF sequenceName \in st.registry THEN << sequenceName >> ELSE << >>

\* SequenceUtilities.extractSymphonyName (spec 4.4): everything up to the
\* last dot.
extractSymphonyName(sequenceName) ==
  SubSeq(sequenceName, 1, Len(sequenceName) - 1)

\* SequenceUtilities.extractResourceId (spec 4.4).
extractResourceId(sequenceName, data) ==
  IF "elementId" \in DOMAIN data THEN data.elementId
  ELSE IF "resourceId" \in DOMAIN data THEN data.resourceId
  ELSE extractSymphonyName(sequenceName)

\* SequenceUtilities.createSequenceInstanceId (spec 4.4):
\* <name>:<resourceId>:<monotonic counter>.
createSequenceInstanceId(sequenceName, data, counter) ==
  [ name |-> sequenceName, resourceId |-> extractResourceId(sequenceName, data),
    counter |-> counter ]

\* canonicalHash (spec 4.4): the canonical form of (name, data, priority);
\* keys starting with "_" are excluded.
PrivateKeys == { "_trace" }
canonicalHash(sequenceName, data, priority) ==
  [ name |-> sequenceName,
    data |-> [k \in (DOMAIN data) \ PrivateKeys |-> data[k]],
    priority |-> priority ]

\* SequenceValidator.deduplicateSequenceRequest (spec 4.3): duplicate iff
\* the hash is in the window; the hash is returned either way and the
\* window is not modified.
deduplicateSequenceRequest(st, sequenceName, data, priority) ==
  LET hash == canonicalHash(sequenceName, data, priority)
  IN [ isDuplicate |-> hash \in st.dedupWindow,
       hash |-> hash,
       reason |-> IF hash \in st.dedupWindow
                  THEN << "Duplicate sequence request" >> ELSE << >> ]

\* ExecutionQueue (spec 4.6): three bands, HIGH ahead of CHAINED ahead of
\* NORMAL, arrival order within a band.
Band(priority) == IF priority = HIGH THEN 2 ELSE IF priority = CHAINED THEN 1 ELSE 0

RECURSIVE enqueue(_, _)
enqueue(q, request) ==
  IF q = << >> THEN << request >>
  ELSE IF Band(Head(q).priority) >= Band(request.priority)
       THEN << Head(q) >> \o enqueue(Tail(q), request)
       ELSE << request >> \o q

\* StatisticsManager (spec 4.8).
recordSequenceQueued(st) == [st EXCEPT !.stats.queued = @ + 1]
recordError(st) == [st EXCEPT !.stats.errors = @ + 1]
updateQueueWaitTime(st) == [st EXCEPT !.stats.waitTimeUpdates = @ + 1]

\* ResourceDelegator (spec 4.5).
Owner(instanceId, priority) == [ instanceId |-> instanceId, priority |-> priority ]

takeOwnership(own, resourceId, instanceId, priority) ==
  [ r \in (DOMAIN own) \cup { resourceId } |->
      IF r = resourceId THEN Owner(instanceId, priority) ELSE own[r] ]

releaseOwnership(own, resourceId, instanceId) ==
  IF resourceId \in DOMAIN own /\ own[resourceId].instanceId = instanceId
  THEN [ r \in (DOMAIN own) \ { resourceId } |-> own[r] ]
  ELSE own

\* The resolution chosen by rules 1-5 of spec 4.5.
delegatorResolution(own, resourceId, instanceId, priority) ==
  IF resourceId \notin DOMAIN own THEN "allow"
  ELSE LET owner == own[resourceId]
       IN IF owner.instanceId = instanceId THEN "allow"
          ELSE IF priority = HIGH /\ owner.priority # HIGH THEN "override"
          ELSE IF priority = CHAINED
                  /\ extractSymphonyName(instanceId.name)
                       = extractSymphonyName(owner.instanceId.name)
               THEN "queue"
          ELSE IF resourceId \in StrictResources THEN "reject"
          ELSE "queue"

\* ResourceDelegator.checkResourceConflict: the answer, and the ownership
\* table after it (ownership is taken at admission for allow/override; an
\* overridden owner is flagged for cancellation).
checkResourceConflict(st, resourceId, instanceId, priority) ==
  LET resolution == delegatorResolution(st.ownership, resourceId, instanceId, priority)
      conflict == resolution \in { "override", "queue", "reject" }
      flagged == IF resolution = "override"
                 THEN st.cancelFlags \cup { st.ownership[resourceId].instanceId }
                 ELSE st.cancelFlags
      own == IF resolution \in { "allow", "override" }
             THEN takeOwnership(st.ownership, resourceId, instanceId, priority)
             ELSE st.ownership
  IN [ result |-> [ hasConflict |-> conflict,
                    resolution |-> resolution,
                    reason |-> IF conflict
                               THEN << resolution, resourceId >>
                               ELSE << >> ],
       st |-> [st EXCEPT !.ownership = own, !.cancelFlags = flagged] ]

\* SequenceExecutor (spec 4.7).
isSequenceRunning(st) == st.running # << >>

\* SequenceExecutor.executeSequence up to its first suspension: the request
\* becomes the running one and SEQUENCE_STARTED is emitted; a request
\* admitted with resolution queue takes the resource now (spec 4.5).
executeSequence(st, request) ==
  LET own == IF request.data.conflictResult.resolution = "QUEUE"
             THEN takeOwnership(st.ownership, request.data.resourceId,
                                request.data.instanceId, request.priority)
             ELSE st.ownership
  IN emit([st EXCEPT !.running = << request >>, !.ownership = own,
                     !.invocations.executeSequence = @ + 1],
          Event(SEQUENCE_STARTED, request.sequenceName, request.requestId, "", 0))

\* ------------------------------------------------------------------------
\* SequenceOrchestrator (src/.../SequenceOrchestrator.ts)
\* ------------------------------------------------------------------------

\* SequenceUtilities.createExecutionContext (spec 3, 4.4): the base
\* context of a request, at the start of its first movement.
baseExecutionContext(request) ==
  [ request |-> request, movementIndex |-> 0, beatIndex |-> 0 ]

\* The fields createExecutionContext adds to the base context.
AugmentedKeys == { "sequence", "executionType", "priority" }

\* Variant of createExecutionContext that types every context CONSECUTIVE.
createExecutionContextConsecutive(st, sequenceRequest) ==
  LET baseContext == baseExecutionContext(sequenceRequest)
      sequence == registryGet(st, sequenceRequest.sequenceName)
  IN IF sequence = << >>
     THEN [ request |-> sequenceRequest, threw |-> TRUE, returned |-> << >> ]
     ELSE [ request |-> sequenceRequest, threw |-> FALSE,
            returned |->
              << [ k \in (DOMAIN baseContext) \cup AugmentedKeys |->
                     CASE k = "sequence" -> sequence
                       [] k = "executionType" -> "CONSECUTIVE"
                       [] k = "priority" -> sequenceRequest.priority
                       [] OTHER -> baseContext[k] ] >> ]

\* createExecutionContext: the outcome of the call, a thrown error or the
\* context returned.
createExecutionContext(st, sequenceRequest) ==
  LET baseContext == baseExecutionContext(sequenceRequest)
      sequence == registryGet(st, sequenceRequest.sequenceName)
  IN IF sequence = << >>
     THEN [ request |-> sequenceRequest, threw |-> TRUE, returned |-> << >> ]
     ELSE [ request |-> sequenceRequest, threw |-> FALSE,
            returned |->
              << [ k \in (DOMAIN baseContext) \cup AugmentedKeys |->
                     CASE k = "sequence" -> sequence
                       [] k = "executionType" ->
                            IF sequenceRequest.priority = HIGH
                            THEN "IMMEDIATE" ELSE "CONSECUTIVE"
                       [] k = "priority" -> sequenceRequest.priority
                       [] OTHER -> baseContext[k] ] >> ]

\* generateRequestId: `${sequenceName}-${Date.now()}-${random}`.  The
\* time/random suffix is represented by a nonce that is fresh per call.
generateRequestId(sequenceName, nonce) ==
  [ name |-> sequenceName, tag |-> "", nonce |-> nonce ]

StartResult(requestId, success, isDuplicate, reason) ==
  [ requestId |-> requestId, success |-> success,
    isDuplicate |-> isDuplicate, reason |-> reason ]

Reason(text, detail) == [ text |-> text, detail |-> detail ]
NoReason == Reason("", << >>)

\* Variant of handleDuplicateSequence that answers without emitting.
handleDuplicateSequenceSilently(st, sequenceName, deduplicationResult, nonce) ==
  [ st |-> st,
    result |-> StartResult([ name |-> sequenceName, tag |-> "duplicate",
                             nonce |-> nonce ], FALSE, TRUE,
                           Reason("duplicate", deduplicationResult.reason)) ]

\* handleDuplicateSequence: a request id tagged "duplicate", one
\* SEQUENCE_CANCELLED event, and the duplicate result.
handleDuplicateSequence(st, sequenceName, deduplicationResult, nonce) ==
  LET duplicateRequestId ==
        [ name |-> sequenceName, tag |-> "duplicate", nonce |-> nonce ]
  IN [ st |-> emit(st, Event(SEQUENCE_CANCELLED, sequenceName,
                             duplicateRequestId, "duplicate-request", 0)),
       result |-> StartResult(duplicateRequestId, FALSE, TRUE,
                              Reason("duplicate", deduplicationResult.reason)) ]

\* extractOrchestrationMetadata: symphony, resource and a new instance id
\* (the utilities' counter advances).
extractOrchestrationMetadata(st, sequenceName, data) ==
  [ metadata |->
      [ symphonyName |-> extractSymphonyName(sequenceName),
        resourceId |-> extractResourceId(sequenceName, data),
        instanceId |-> createSequenceInstanceId(sequenceName, data,
                                                st.instanceCounter + 1) ],
    st |-> [st EXCEPT !.instanceCounter = @ + 1] ]

\* Variant of convertResolution that turns an override into a rejection.
convertResolutionOverrideAsReject(resolution) ==
  IF resolution \in { "override", "reject" } THEN "REJECT"
  ELSE IF resolution = "queue" THEN "QUEUE"
  ELSE "ALLOW"

\* Variant of convertResolution whose default is QUEUE.
convertResolutionDefaultQueue(resolution) ==
  IF resolution = "override" THEN "ALLOW"
  ELSE IF resolution = "reject" THEN "REJECT"
  ELSE "QUEUE"

\* Variant of convertResolution without the reject case.
convertResolutionWithoutReject(resolution) ==
  IF resolution = "queue" THEN "QUEUE" ELSE "ALLOW"

\* The conversion of the delegator's resolution inside
\* checkResourceConflicts.
convertResolution(resolution) ==
  IF resolution = "override" THEN "ALLOW"
  ELSE IF resolution = "reject" THEN "REJECT"
  ELSE IF resolution = "queue" THEN "QUEUE"
  ELSE "ALLOW"

\* The conflict result checkResourceConflicts builds from the delegator's
\* answer: hasConflict is copied, the type follows it, the resolution is
\* converted and the reason is the message when there is one.
convertDelegatorResult(delegatorResult) ==
  [ hasConflict |-> delegatorResult.hasConflict,
    conflictType |-> IF delegatorResult.hasConflict
                     THEN "SAME_RESOURCE" ELSE "NONE",
    resolution |-> convertResolution(delegatorResult.resolution),
    message |-> IF delegatorResult.reason # << >>
                THEN delegatorResult.reason
                ELSE << "No conflict detected" >> ]

\* checkResourceConflicts: consult the delegator and convert its answer.
checkResourceConflicts(st, metadata, priority) ==
  LET answer == checkResourceConflict(st, metadata.resourceId,
                                      metadata.instanceId, priority)
  IN [ conflictResult |-> convertDelegatorResult(answer.result),
       st |-> [answer.st EXCEPT !.invocations.checkResourceConflict = @ + 1] ]

\* createSequenceRequest: the orchestration fields are spread over the
\* caller's data.
MetadataKeys ==
  { "instanceId", "symphonyName", "resourceId", "conflictResult", "sequenceHash" }

\* Variant of createSequenceRequest in which the caller's data keys win
\* over the orchestration metadata.
createSequenceRequestCallerWins(sequenceName, data, priority, requestId, metadata, conflictResult, sequenceHash) ==
  [ sequenceName |-> sequenceName,
    data |-> [ k \in (DOMAIN data) \cup MetadataKeys |->
                 IF k \in DOMAIN data THEN data[k]
                 ELSE CASE k = "instanceId" -> metadata.instanceId
                        [] k = "symphonyName" -> metadata.symphonyName
                        [] k = "resourceId" -> metadata.resourceId
                        [] k = "conflictResult" -> conflictResult
                        [] OTHER -> sequenceHash ],
    priority |-> priority,
    requestId |-> requestId ]

\* Variant of createSequenceRequest that files every request as NORMAL.
createSequenceRequestAsNormal(sequenceName, data, priority, requestId, metadata, conflictResult, sequenceHash) ==
  [ sequenceName |-> sequenceName,
    data |-> [ k \in (DOMAIN data) \cup MetadataKeys |->
                 CASE k = "instanceId" -> metadata.instanceId
                   [] k = "symphonyName" -> metadata.symphonyName
                   [] k = "resourceId" -> metadata.resourceId
                   [] k = "conflictResult" -> conflictResult
                   [] k = "sequenceHash" -> sequenceHash
                   [] OTHER -> data[k] ],
    priority |-> NORMAL,
    requestId |-> requestId ]

createSequenceRequest(sequenceName, data, priority, requestId, metadata, conflictResult, sequenceHash) ==
  [ sequenceName |-> sequenceName,
    data |-> [ k \in (DOMAIN data) \cup MetadataKeys |->
                 CASE k = "instanceId" -> metadata.instanceId
                   [] k = "symphonyName" -> metadata.symphonyName
                   [] k = "resourceId" -> metadata.resourceId
                   [] k = "conflictResult" -> conflictResult
                   [] k = "sequenceHash" -> sequenceHash
                   [] OTHER -> data[k] ],
    priority |-> priority,
    requestId |-> requestId ]

\* recordSequenceExecution: only logs; the window is left as it is.
recordSequenceExecution(st, sequenceHash) == st

\* QueueProcessingResult (lines 38-43); error is "" when the code leaves
\* it out.
QueueProcessingResult(processed, sequenceName, success, error) ==
  [ processed |-> processed, sequenceName |-> sequenceName,
    success |-> success, error |-> error ]

\* The promise returned by one processSequenceQueue call resolves.
resolveDrain(st, result) == [st EXCEPT !.drainResults = Append(@, result)]

\* Variant of drainIsNoOp that does not ask the executor.
drainIsNoOpOnEmptyOnly(st) == st.queue = << >>

\* The early return of processSequenceQueue.
drainIsNoOp(st) == st.queue = << >> \/ isSequenceRunning(st)

\* processSequenceQueue up to its await: dequeue, update the wait-time
\* statistic, look the sequence up; a missing sequence is dropped and the
\* drain recurses at once, a present one is handed to the executor.
RECURSIVE processSequenceQueue(_)

\* Variant of processSequenceQueue whose early return still updates the
\* wait-time statistic.
processSequenceQueueCountingNoOp(st) ==
  IF drainIsNoOp(st)
  THEN resolveDrain(updateQueueWaitTime(st), [ processed |-> FALSE ])
  ELSE LET nextRequest == Head(st.queue)
           sequence == registryGet(st, nextRequest.sequenceName)
           st1 == updateQueueWaitTime(
                    [st EXCEPT !.queue = Tail(@),
                               !.dequeues =
                                 Append(@, [ requestId |-> nextRequest.requestId,
                                             handed |-> sequence # << >> ])])
       IN IF sequence = << >>
          THEN resolveDrain(processSequenceQueue(st1),
                            QueueProcessingResult(TRUE, nextRequest.sequenceName,
                                                  FALSE, "Sequence not found in registry"))
          ELSE executeSequence(st1, nextRequest)

\* Variant of processSequenceQueue that stops at a request whose sequence
\* is missing instead of going on with the next one.
processSequenceQueueStoppingAtMissing(st) ==
  IF drainIsNoOp(st) THEN resolveDrain(st, [ processed |-> FALSE ])
  ELSE LET nextRequest == Head(st.queue)
           sequence == registryGet(st, nextRequest.sequenceName)
           st1 == updateQueueWaitTime(
                    [st EXCEPT !.queue = Tail(@),
                               !.dequeues =
                                 Append(@, [ requestId |-> nextRequest.requestId,
                                             handed |-> sequence # << >> ])])
       IN IF sequence = << >>
          THEN resolveDrain(st1,
                            QueueProcessingResult(TRUE, nextRequest.sequenceName,
                                                  FALSE, "Sequence not found in registry"))
          ELSE executeSequence(st1, nextRequest)

\* Variant of processSequenceQueue that peeks at the head of the queue
\* and leaves a request it hands to the executor in the queue.
processSequenceQueuePeeking(st) ==
  IF drainIsNoOp(st) THEN resolveDrain(st, [ processed |-> FALSE ])
  ELSE LET nextRequest == Head(st.queue)
           sequence == registryGet(st, nextRequest.sequenceName)
           seen == [ requestId |-> nextRequest.requestId,
                     handed |-> sequence # << >> ]
       IN IF sequence = << >>
          THEN resolveDrain(
                 processSequenceQueue(
                   updateQueueWaitTime([st EXCEPT !.queue = Tail(@),
                                                  !.dequeues = Append(@, seen)])),
                 QueueProcessingResult(TRUE, nextRequest.sequenceName, FALSE,
                                       "Sequence not found in registry"))
          ELSE executeSequence(
                 updateQueueWaitTime([st EXCEPT !.dequeues = Append(@, seen)]),
                 nextRequest)

processSequenceQueue(st) ==
  IF drainIsNoOp(st) THEN resolveDrain(st, [ processed |-> FALSE ])
  ELSE LET nextRequest == Head(st.queue)
           sequence == registryGet(st, nextRequest.sequenceName)
           st1 == updateQueueWaitTime(
                    [st EXCEPT !.queue = Tail(@),
                               !.dequeues =
                                 Append(@, [ requestId |-> nextRequest.requestId,
                                             handed |-> sequence # << >> ])])
       IN IF sequence = << >>
          THEN resolveDrain(processSequenceQueue(st1),
                            QueueProcessingResult(TRUE, nextRequest.sequenceName,
                                                  FALSE, "Sequence not found in registry"))
          ELSE executeSequence(st1, nextRequest)

\* Variant of processQueueIfIdle that hands the head of the queue over
\* whether or not the executor is running.
processQueueRegardless(st) ==
  IF st.queue = << >> THEN st
  ELSE executeSequence(
         [st EXCEPT !.queue = Tail(@),
                    !.dequeues = Append(@, [ requestId |-> Head(st.queue).requestId,
                                             handed |-> TRUE ])],
         Head(st.queue))

\* processQueueIfIdle.
processQueueIfIdle(st) ==
  IF ~isSequenceRunning(st) THEN processSequenceQueue(st) ELSE st

\* Variant of emitSequenceQueuedEvent that emits nothing.
emitSequenceQueuedEventDropped(st, sequenceName, requestId, priority) == st

\* emitSequenceQueuedEvent.
emitSequenceQueuedEvent(st, sequenceName, requestId, priority) ==
  emit(st, Event(SEQUENCE_QUEUED, sequenceName, requestId, "", Len(st.queue)))

\* The collaborator operations called inside the try block of
\* startSequence that are taken to raise in SpecFault: the validator's
\* deduplicateSequenceRequest (line 98), the delegator's
\* checkResourceConflict (line 369), the queue's enqueue (line 144) and
\* size (line 460).
FaultPoints ==
  { "deduplicateSequenceRequest", "checkResourceConflict", "enqueue", "size" }

\* Whether the call of this collaborator operation raises.
raises(st, operation) == st.raising = operation

\* Variant of admissionError that does not record the error.
admissionErrorUnrecorded(st, requestId, reason) ==
  [ st |-> st, result |-> StartResult(requestId, FALSE, FALSE, reason) ]

\* The catch block of startSequence.
admissionError(st, requestId, reason) ==
  [ st |-> recordError(st),
    result |-> StartResult(requestId, FALSE, FALSE, reason) ]

\* Variant of sequenceMissing that accepts every lookup result.
sequenceMissingNever(sequence) == FALSE

\* Phase 1 test: the registry has no sequence of that name.
sequenceMissing(sequence) == sequence = << >>

\* Phases 6-9 of startSequence.
admit(st, sequenceName, data, priority, requestId, metadata, conflictResult, sequenceHash) ==
  LET sequenceRequest ==
        createSequenceRequest(sequenceName, data, priority, requestId,
                              metadata, conflictResult, sequenceHash)
      st7a == [recordSequenceQueued(st) EXCEPT !.invocations.enqueue = @ + 1]
      st7 == [st7a EXCEPT !.queue = enqueue(@, sequenceRequest)]
      st8 == processQueueIfIdle(st7)
      st9 == emitSequenceQueuedEvent(st8, sequenceName, requestId, priority)
  IN IF raises(st, "enqueue")
     THEN admissionError(st7a, requestId, Reason("raised", << "enqueue" >>))
     ELSE IF raises(st, "size")
     THEN admissionError(st8, requestId, Reason("raised", << "size" >>))
     ELSE [ st |-> st9, result |-> StartResult(requestId, TRUE, FALSE, NoReason) ]

\* startSequence: the state after the call and the result returned.
startSequence(st, sequenceName, data, priority, nonce) ==
  LET requestId == generateRequestId(sequenceName, nonce)
      sequence == registryGet(st, sequenceName)
  IN IF sequenceMissing(sequence)
     THEN admissionError(st, requestId,
                         Reason("Sequence not found", << sequenceName >>))
     ELSE
       LET deduplicationResult ==
             deduplicateSequenceRequest(st, sequenceName, data, priority)
           st2 == [st EXCEPT !.invocations.deduplicateSequenceRequest = @ + 1]
       IN IF raises(st, "deduplicateSequenceRequest")
          THEN admissionError(st2, requestId,
                              Reason("raised", << "deduplicateSequenceRequest" >>))
          ELSE IF deduplicationResult.isDuplicate
          THEN handleDuplicateSequence(st2, sequenceName,
                                       deduplicationResult, nonce)
          ELSE
            LET st3 == recordSequenceExecution(st2, deduplicationResult.hash)
                extracted == extractOrchestrationMetadata(st3, sequenceName, data)
                checked == checkResourceConflicts(extracted.st,
                                                  extracted.metadata, priority)
            IN IF raises(st, "checkResourceConflict")
               THEN admissionError(
                      [extracted.st EXCEPT !.invocations.checkResourceConflict = @ + 1],
                      requestId, Reason("raised", << "checkResourceConflict" >>))
               ELSE IF checked.conflictResult.resolution = "REJECT"
               THEN admissionError(checked.st, requestId,
                                   Reason("Resource conflict",
                                          checked.conflictResult.message))
               ELSE admit(checked.st, sequenceName, data, priority, requestId,
                          extracted.metadata, checked.conflictResult,
                          deduplicationResult.hash)

\* ------------------------------------------------------------------------
\* Actions
\* ------------------------------------------------------------------------

\* Hashes a validator handed to the constructor may already hold.
PreRecorded == { canonicalHash(<<"Canvas", "drop-symphony">>, NoData, NORMAL) }

\* The state after construction, with the sequences in registered
\* registered by plugins and the validator's window among windows.
InitWith(registered, windows, raisers) ==
  /\ registry = registered
  /\ dedupWindow \in windows
  /\ ownership = [r \in {} |-> Owner(<< >>, NORMAL)]
  /\ cancelFlags = {}
  /\ instanceCounter = 0
  /\ queue = << >>
  /\ running = << >>
  /\ conts = << >>
  /\ stats = [ queued |-> 0, errors |-> 0, duplicates |-> 0, waitTimeUpdates |-> 0 ]
  /\ bus = << >>
  /\ dequeues = << >>
  /\ invocations = [ deduplicateSequenceRequest |-> 0, checkResourceConflict |-> 0,
                     enqueue |-> 0, executeSequence |-> 0 ]
  /\ drainResults = << >>
  /\ context = << >>
  /\ conversion = << >>
  /\ drainCalls = 0
  /\ raising \in raisers
  /\ calls = << >>

\* One of the two names is registered.
Init == InitWith({ <<"Canvas", "drop-symphony">> }, SUBSET PreRecorded, { "none" })

\* One startSequence(sequenceName, data, priority) call, start to return.
StartSequence(sequenceName, data, priority, maxCalls) ==
  /\ Len(calls) < maxCalls
  /\ LET outcome == startSequence(State, sequenceName, data, priority,
                                  Len(calls) + 1)
     IN /\ Install(outcome.st)
        /\ calls' = Append(calls,
                      [ sequenceName |-> sequenceName, data |-> data,
                        priority |-> priority, result |-> outcome.result,
                        queueBefore |-> queue,
                        runningBefore |-> running,
                        ownershipBefore |-> ownership,
                        dequeuesBefore |-> Len(dequeues),
                        busBefore |-> Len(bus),
                        busAfter |-> Len(outcome.st.bus) ])

\* An execution may also end with a rejection that the executor did not
\* turn into a terminal event (spec 7, "unhandled Executor rejection").
UnhandledRejection == "unhandled-rejection"

\* The executor settles the running request (spec 4.7): with a terminal
\* event, SEQUENCE_CANCELLED{preempted} if an override flagged it, else
\* SEQUENCE_COMPLETED or SEQUENCE_FAILED, releasing its resources; or with
\* an unhandled rejection, which emits and releases nothing.  The promise
\* awaited by the drain resolves, or rejects with an error.
Settle(terminal) ==
  /\ running # << >>
  /\ LET request == running[1]
         flagged == request.data.instanceId \in cancelFlags
     IN /\ terminal = UnhandledRejection
             \/ (terminal = SEQUENCE_CANCELLED <=> flagged)
        /\ IF terminal = UnhandledRejection
           THEN UNCHANGED << bus, ownership, cancelFlags >>
           ELSE /\ bus' = Append(bus, Event(terminal, request.sequenceName,
                                            request.requestId,
                                            IF flagged THEN "preempted" ELSE "", 0))
                /\ ownership' = releaseOwnership(ownership, request.data.resourceId,
                                                 request.data.instanceId)
                /\ cancelFlags' = cancelFlags \ { request.data.instanceId }
        /\ conts' = Append(conts,
                      [ requestId |-> request.requestId,
                        sequenceName |-> request.sequenceName,
                        settled |-> IF terminal \in { SEQUENCE_FAILED, UnhandledRejection }
                                    THEN "rejected" ELSE "resolved",
                        error |-> IF terminal = SEQUENCE_FAILED THEN "handler failed"
                                  ELSE IF terminal = UnhandledRejection
                                  THEN "executor rejected"
                                  ELSE "" ])
  /\ running' = << >>
  /\ UNCHANGED << registry, dedupWindow, instanceCounter, queue, stats,
                  dequeues, invocations, drainResults, drainCalls, context,
                  conversion, raising, calls >>

\* The value the promise of a processSequenceQueue call that reached its
\* await resolves with (lines 215-219 and 228-233).
awaitedResult(cont) ==
  IF cont.settled = "resolved"
  THEN QueueProcessingResult(TRUE, cont.sequenceName, TRUE, "")
  ELSE QueueProcessingResult(TRUE, cont.sequenceName, FALSE, cont.error)

\* Variant of DrainContinue whose catch path does not drain again.
DrainContinueHaltOnFailure ==
  /\ conts # << >>
  /\ IF Head(conts).settled = "rejected"
     THEN Install(resolveDrain([State EXCEPT !.conts = Tail(@)],
                               awaitedResult(Head(conts))))
     ELSE Install(resolveDrain(processSequenceQueue([State EXCEPT !.conts = Tail(@)]),
                               awaitedResult(Head(conts))))
  /\ UNCHANGED calls

\* The drain resumes after its await: both the normal path (lines 211-219)
\* and the catch path (lines 220-234) call processSequenceQueue again and
\* then return their result; neither emits an event.
DrainContinue ==
  /\ conts # << >>
  /\ Install(resolveDrain(processSequenceQueue([State EXCEPT !.conts = Tail(@)]),
                          awaitedResult(Head(conts))))
  /\ UNCHANGED calls

\* One processSequenceQueue() call made from outside the orchestrator, up
\* to its first suspension.
ProcessSequenceQueue ==
  /\ drainCalls < MaxDrainCalls
  /\ Install([processSequenceQueue(State) EXCEPT !.drainCalls = @ + 1])
  /\ UNCHANGED calls

\* One createExecutionContext(request) call, on a request the orchestrator
\* built that is waiting or executing.
CreateExecutionContext(sequenceRequest) ==
  /\ Install([State EXCEPT !.context = << createExecutionContext(State, sequenceRequest) >>])
  /\ UNCHANGED calls

\* One conversion of a delegator answer by checkResourceConflicts, for a
\* delegator that may answer anything.
ConvertDelegatorResult(delegatorResult) ==
  /\ invocations.checkResourceConflict < MaxConflictChecks
  /\ Install([State EXCEPT !.conversion =
               << [ delegatorResult |-> delegatorResult,
                    conflictResult |-> convertDelegatorResult(delegatorResult) ] >>,
                           !.invocations.checkResourceConflict = @ + 1])
  /\ UNCHANGED calls

\* unregisterPlugin (spec 4.2, 6).
Unregister(sequenceName) ==
  /\ sequenceName \in registry
  /\ registry' = registry \ { sequenceName }
  /\ UNCHANGED << dedupWindow, ownership, cancelFlags, instanceCounter, queue,
                  running, conts, stats, bus, dequeues, invocations,
                  drainResults, drainCalls, context, conversion, raising,
                  calls >>

\* The steps of the executor, the event loop and the plugin registry;
\* removable lists the plugins that may be unregistered, terminals the
\* ways an execution may end.
Environment(removable, terminals) ==
  \/ \E terminal \in terminals : Settle(terminal)
  \/ DrainContinue
  \/ \E sequenceName \in removable : Unregister(sequenceName)

\* Arguments of the startSequence calls explored by Spec: every data and
\* priority on the registered sequence, and one call on the other name.
Requests ==
  ({ <<"Canvas", "drop-symphony">> } \X DataSet \X Priorities)
    \cup { << <<"Library", "load-symphony">>, NoData, NORMAL >> }

Next ==
  \/ \E r \in Requests : StartSequence(r[1], r[2], r[3], MaxCalls)
  \/ Environment(Names, TerminalTypes)

Spec == Init /\ [][Next]_vars

\* The setting of the no-timeout and wake-up claims: NORMAL and HIGH calls
\* on one sequence and one resource, so that a HIGH call overrides the
\* owner.
NextSerial ==
  \/ \E priority \in { NORMAL, HIGH } :
       StartSequence(<<"Canvas", "drop-symphony">>, NoData, priority,
                     MaxSerialCalls)
  \/ Environment(Names, TerminalTypes)

SpecSerial == Init /\ [][NextSerial]_vars

\* The setting of the drain claims: as SpecSerial, and processSequenceQueue
\* is also called from outside the orchestrator.
NextDrain ==
  \/ \E priority \in { NORMAL, HIGH } :
       StartSequence(<<"Canvas", "drop-symphony">>, NoData, priority,
                     MaxDrainStartCalls)
  \/ ProcessSequenceQueue
  \/ Environment(Names, TerminalTypes)

SpecDrain == Init /\ [][NextDrain]_vars

\* The setting of the priority claims: both names registered, NORMAL
\* calls on one and HIGH calls on the other, no element data; the plugin of
\* the HIGH calls may be unregistered, and executions complete.
InitPriority == InitWith(Names, { {} }, { "none" })

NextPriority ==
  \/ StartSequence(<<"Canvas", "drop-symphony">>, NoData, NORMAL, MaxPriorityCalls)
  \/ StartSequence(<<"Library", "load-symphony">>, NoData, HIGH, MaxPriorityCalls)
  \/ Environment({ <<"Library", "load-symphony">> }, { SEQUENCE_COMPLETED })

SpecPriority == InitPriority /\ [][NextPriority]_vars

\* The setting of the priority jump from idle: as SpecPriority, with NORMAL
\* calls that differ in their element data.
NextJump ==
  \/ \E data \in DataSet :
       StartSequence(<<"Canvas", "drop-symphony">>, data, NORMAL, MaxJumpCalls)
  \/ StartSequence(<<"Library", "load-symphony">>, NoData, HIGH, MaxJumpCalls)
  \/ Environment({ <<"Library", "load-symphony">> }, { SEQUENCE_COMPLETED })

SpecJump == InitPriority /\ [][NextJump]_vars

\* The setting of the drainer's error handling: calls on one sequence, and
\* executions that may also end with an unhandled rejection.
NextFailure ==
  \/ \E priority \in { NORMAL, HIGH } :
       StartSequence(<<"Canvas", "drop-symphony">>, NoData, priority,
                     MaxFailureCalls)
  \/ Environment(Names, TerminalTypes \cup { UnhandledRejection })

SpecFailure == Init /\ [][NextFailure]_vars

\* The setting of the request metadata claim: caller data that carries
\* keys of its own, some of them named like the orchestration metadata.
CallerData ==
  { NoData,
    [ note |-> <<"keep">> ],
    [ elementId |-> <<"elem-7">>, resourceId |-> <<"caller-resource">>,
      symphonyName |-> <<"Caller">>, note |-> <<"keep">> ] }

NextMetadata ==
  \/ \E data \in CallerData, priority \in { NORMAL, HIGH } :
       StartSequence(<<"Canvas", "drop-symphony">>, data, priority,
                     MaxMetadataCalls)
  \/ Environment(Names, TerminalTypes)

SpecMetadata == Init /\ [][NextMetadata]_vars

\* The setting of the execution context claim: calls of every priority on
\* one sequence, whose plugin may be unregistered, and contexts created
\* for the requests that are waiting or executing.
NextContext ==
  \/ \E priority \in Priorities :
       StartSequence(<<"Canvas", "drop-symphony">>, NoData, priority,
                     MaxContextCalls)
  \/ \E sequenceRequest \in Range(queue) \cup Range(running) :
       CreateExecutionContext(sequenceRequest)
  \/ Environment(Names, { SEQUENCE_COMPLETED })

SpecContext == Init /\ [][NextContext]_vars

\* The answers of a delegator: the four resolutions of spec 4.5 and one
\* the orchestrator does not know, with and without a conflict.
DelegatorResolutions == { "allow", "override", "reject", "queue", "defer" }

DelegatorResults ==
  { [ hasConflict |-> hasConflict, resolution |-> resolution,
      reason |-> IF hasConflict THEN << "held" >> ELSE << >> ] :
    hasConflict \in BOOLEAN, resolution \in DelegatorResolutions }

InitConversion == InitWith({ <<"Canvas", "drop-symphony">> }, { {} }, { "none" })

\* The setting of the conflict conversion claim: calls of two priorities
\* on a strict and on a lenient resource, and conversions of arbitrary
\* delegator answers.
NextConversion ==
  \/ \E data \in DataSet, priority \in { NORMAL, HIGH } :
       StartSequence(<<"Canvas", "drop-symphony">>, data, priority,
                     MaxConversionCalls)
  \/ \E delegatorResult \in DelegatorResults :
       ConvertDelegatorResult(delegatorResult)
  \/ Environment(Names, { SEQUENCE_COMPLETED })

SpecConversion == InitConversion /\ [][NextConversion]_vars

\* The setting of the failed admission claim: one of the collaborator
\* operations called by startSequence raises whenever it is called.
InitFault == InitWith({ <<"Canvas", "drop-symphony">> }, { {} }, FaultPoints)

NextFault ==
  \/ \E data \in DataSet, priority \in { NORMAL, HIGH } :
       StartSequence(<<"Canvas", "drop-symphony">>, data, priority,
                     MaxFaultCalls)
  \/ Environment(Names, TerminalTypes)

SpecFault == InitFault /\ [][NextFault]_vars

\* The await of the drain: once the awaited promise has settled the
\* continuation is run by the event loop, and (the proviso of the liveness
\* claims) an execution handed to the executor settles.
DrainFairness(terminals) ==
  /\ WF_vars(DrainContinue)
  /\ WF_vars(\E terminal \in terminals : Settle(terminal))

\* The setting of the override claim: NORMAL and HIGH calls on one
\* sequence and so on one resource; its plugin may be unregistered and
\* executions end in any of the three terminal events.  Executions settle
\* (the proviso of the claim as amended) and the drain continues after its
\* await.
NextOverride ==
  \/ \E priority \in { NORMAL, HIGH } :
       StartSequence(<<"Canvas", "drop-symphony">>, NoData, priority,
                     MaxOverrideCalls)
  \/ Environment(Names, TerminalTypes)

SpecOverride ==
  Init /\ [][NextOverride]_vars /\ DrainFairness(TerminalTypes)

\* The setting of the drain liveness claim: NORMAL and HIGH calls on one
\* sequence, whose plugin may be unregistered; executions end in any of
\* the three terminal events.
NextLive ==
  \/ \E priority \in { NORMAL, HIGH } :
       StartSequence(<<"Canvas", "drop-symphony">>, NoData, priority,
                     MaxLiveCalls)
  \/ Environment(Names, TerminalTypes)

SpecLive == Init /\ [][NextLive]_vars /\ DrainFairness(TerminalTypes)

\* ------------------------------------------------------------------------
\* Properties
\* ------------------------------------------------------------------------

\* A step that is a startSequence call, and the call it appends.
StartStep == Len(calls') = Len(calls) + 1
NewCall == calls'[Len(calls')]

\* Positions of the events emitted by the step.
NewEventIndexes == (Len(bus) + 1) .. Len(bus')

\* Whether the validator reports these arguments as a duplicate now.
ReportedDuplicate(sequenceName, data, priority) ==
  /\ sequenceName \in registry
  /\ deduplicateSequenceRequest(State, sequenceName, data, priority).isDuplicate

\* The delegator's resolution for these arguments now.
ResolutionNow(sequenceName, data, priority) ==
  delegatorResolution(ownership, extractResourceId(sequenceName, data),
                      createSequenceInstanceId(sequenceName, data,
                                               instanceCounter + 1),
                      priority)

SameArguments(a, b) ==
  /\ a.sequenceName = b.sequenceName
  /\ a.data = b.data
  /\ a.priority = b.priority

\* C1 -- Serialization: executions never overlap.  Between two
\* SEQUENCE_STARTED events on the bus there is always the terminal event of
\* the earlier one, whatever the priorities of the requests.
C1Serialization ==
  \A i, j \in 1..Len(bus) :
    (i < j /\ bus[i].type = SEQUENCE_STARTED /\ bus[j].type = SEQUENCE_STARTED)
      => \E k \in (i + 1)..(j - 1) :
           /\ bus[k].type \in TerminalTypes
           /\ bus[k].requestId = bus[i].requestId

\* A HIGH request admitted while another request was executing has been
\* started after that request's terminal event.
C1Witness ==
  \E i, k, j \in 1..Len(bus), n \in 1..Len(calls) :
    /\ i < k /\ k < j
    /\ bus[i].type = SEQUENCE_STARTED
    /\ bus[k].type \in TerminalTypes
    /\ bus[k].requestId = bus[i].requestId
    /\ bus[j].type = SEQUENCE_STARTED
    /\ bus[j].requestId = calls[n].result.requestId
    /\ calls[n].priority = HIGH
    /\ calls[n].busBefore >= i
    /\ calls[n].busBefore < k

\* C2 -- Idempotency window: of two back-to-back calls with equal
\* (sequenceName, data, priority) on a registered sequence, the first of
\* which was admitted, the second is answered as a duplicate.
C2IdempotencyWindow ==
  \A i \in 1..(Len(calls) - 1) :
    ( /\ SameArguments(calls[i], calls[i + 1])
      /\ calls[i].result.success
      /\ calls[i + 1].busBefore = calls[i].busAfter
      /\ calls[i + 1].result.reason.text # "Sequence not found" )
      => /\ ~calls[i + 1].result.success
         /\ calls[i + 1].result.isDuplicate

\* C3 -- A call the validator reports as a duplicate emits exactly one
\* SEQUENCE_CANCELLED{duplicate-request}, returns success:false,
\* isDuplicate:true with an id tagged duplicate that no enqueued request
\* has, and does nothing else: no delegator check, no enqueue, no drain, no
\* SEQUENCE_QUEUED.
C3DuplicateAnswer ==
  [][ ( /\ StartStep
        /\ ReportedDuplicate(NewCall.sequenceName, NewCall.data, NewCall.priority) )
      => /\ ~NewCall.result.success
         /\ NewCall.result.isDuplicate
         /\ NewCall.result.requestId.tag = "duplicate"
         /\ \A n \in 1..Len(calls) :
              calls[n].result.success
                => calls[n].result.requestId # NewCall.result.requestId
         /\ bus' = Append(bus, Event(SEQUENCE_CANCELLED, NewCall.sequenceName,
                                     NewCall.result.requestId,
                                     "duplicate-request", 0))
         /\ invocations'.checkResourceConflict = invocations.checkResourceConflict
         /\ invocations'.enqueue = invocations.enqueue
         /\ invocations'.executeSequence = invocations.executeSequence
         /\ UNCHANGED << queue, dequeues, running, ownership, cancelFlags,
                         instanceCounter >>
    ]_vars

\* The last call was answered as a duplicate.
C3Witness ==
  /\ calls # << >>
  /\ calls[Len(calls)].result.isDuplicate

\* C4 -- The duplicates counter equals the number of calls answered with
\* isDuplicate:true.
C4DuplicatesCounted ==
  stats.duplicates
    = Cardinality({ n \in 1..Len(calls) : calls[n].result.isDuplicate })

\* C5 -- A call on a name that is not registered fails with a reason naming
\* the sequence and skips deduplication, delegator, enqueue and
\* SEQUENCE_QUEUED; queue, dedup window and ownership stay as they were.
C5NotFound ==
  [][ (StartStep /\ NewCall.sequenceName \notin registry)
      => /\ ~NewCall.result.success
         /\ NewCall.result.reason
              = Reason("Sequence not found", << NewCall.sequenceName >>)
         /\ invocations' = invocations
         /\ \A k \in NewEventIndexes : bus'[k].type # SEQUENCE_QUEUED
         /\ UNCHANGED << queue, dedupWindow, ownership >>
    ]_vars

\* The last call named a sequence that is not registered and was refused.
C5Witness ==
  /\ calls # << >>
  /\ calls[Len(calls)].result.reason.text = "Sequence not found"
  /\ calls[Len(calls)].sequenceName \notin registry

\* C6 -- Every call answered with success:false has emitted, before it
\* returned, a sequence:cancelled or sequence:failed event for its request.
C6FailureObservable ==
  \A n \in 1..Len(calls) :
    ~calls[n].result.success
      => \E k \in (calls[n].busBefore + 1)..calls[n].busAfter :
           /\ bus[k].type \in { SEQUENCE_CANCELLED, SEQUENCE_FAILED }
           /\ bus[k].requestId = calls[n].result.requestId

\* C7 -- When the delegator resolves reject, the call returns success:false
\* with a reason carrying the delegator's message, and the request is not
\* enqueued, not announced with SEQUENCE_QUEUED and not counted as queued;
\* the queue is as before.
C7Rejected ==
  [][ ( /\ StartStep
        /\ NewCall.sequenceName \in registry
        /\ ~ReportedDuplicate(NewCall.sequenceName, NewCall.data, NewCall.priority)
        /\ ResolutionNow(NewCall.sequenceName, NewCall.data, NewCall.priority)
             = "reject" )
      => /\ ~NewCall.result.success
         /\ NewCall.result.reason.text = "Resource conflict"
         /\ NewCall.result.reason.detail
              = checkResourceConflict(
                  State, extractResourceId(NewCall.sequenceName, NewCall.data),
                  createSequenceInstanceId(NewCall.sequenceName, NewCall.data,
                                           instanceCounter + 1),
                  NewCall.priority).result.reason
         /\ queue' = queue
         /\ stats'.queued = stats.queued
         /\ invocations'.enqueue = invocations.enqueue
         /\ \A k \in NewEventIndexes : bus'[k].type # SEQUENCE_QUEUED
    ]_vars

\* The last call was refused because of a resource conflict.
C7Witness ==
  /\ calls # << >>
  /\ calls[Len(calls)].result.reason.text = "Resource conflict"
  /\ ~calls[Len(calls)].result.success

\* C8 -- A call on a registered sequence that is neither a duplicate nor
\* rejected returns {requestId, success:true}, counts one queued request,
\* enqueues exactly one request carrying the call's requestId, name and
\* priority, and emits exactly one SEQUENCE_QUEUED with that requestId.
C8Admitted ==
  [][ ( /\ StartStep
        /\ NewCall.sequenceName \in registry
        /\ ~ReportedDuplicate(NewCall.sequenceName, NewCall.data, NewCall.priority)
        /\ ResolutionNow(NewCall.sequenceName, NewCall.data, NewCall.priority)
             \in { "allow", "override", "queue" } )
      => /\ NewCall.result
              = StartResult(generateRequestId(NewCall.sequenceName, Len(calls')),
                            TRUE, FALSE, NoReason)
         /\ stats'.queued = stats.queued + 1
         /\ invocations'.enqueue = invocations.enqueue + 1
         /\ Len(queue') + (Len(dequeues') - Len(dequeues)) = Len(queue) + 1
         /\ ({ r.requestId : r \in Range(queue') }
               \cup { dequeues'[k].requestId : k \in (Len(dequeues) + 1)..Len(dequeues') })
              \ { r.requestId : r \in Range(queue) }
              = { NewCall.result.requestId }
         /\ \E r \in Range(queue') \cup Range(running') :
              /\ r.requestId = NewCall.result.requestId
              /\ r.sequenceName = NewCall.sequenceName
              /\ r.priority = NewCall.priority
         /\ Cardinality({ k \in NewEventIndexes :
                            bus'[k].type = SEQUENCE_QUEUED }) = 1
         /\ \A k \in NewEventIndexes :
              bus'[k].type = SEQUENCE_QUEUED
                => bus'[k].requestId = NewCall.result.requestId
    ]_vars

\* The last call was admitted with a conflict resolved as override or
\* queue.
C8Witness ==
  /\ calls # << >>
  /\ calls[Len(calls)].result.success
  /\ \E r \in Range(queue) \cup Range(running) :
       /\ r.requestId = calls[Len(calls)].result.requestId
       /\ r.data.conflictResult.hasConflict

\* C9 -- The sequence:queued event of a request precedes its
\* sequence:started event on the bus.
C9QueuedBeforeStarted ==
  \A j \in 1..Len(bus) :
    bus[j].type = SEQUENCE_STARTED
      => \E i \in 1..(j - 1) :
           /\ bus[i].type = SEQUENCE_QUEUED
           /\ bus[i].requestId = bus[j].requestId

\* The case of C10: call n is an admitted HIGH request that found the
\* queue holding two NORMAL requests.
HighBehindTwoNormals(n) ==
  /\ calls[n].priority = HIGH
  /\ calls[n].result.success
  /\ Len(calls[n].queueBefore) = 2
  /\ \A i \in 1..2 : calls[n].queueBefore[i].priority = NORMAL

\* Positions of the SEQUENCE_STARTED events emitted since call n began.
StartedSince(n) ==
  { k \in (calls[n].busBefore + 1)..Len(bus) : bus[k].type = SEQUENCE_STARTED }

NextStartedIs(n) ==
  \A k \in StartedSince(n) :
    (\A m \in StartedSince(n) : k <= m)
      => bus[k].requestId = calls[n].result.requestId

\* C10 as stated -- Priority monotonicity: after a HIGH request H is
\* admitted to a queue holding NORMAL [N1, N2], the next SEQUENCE_STARTED
\* is H's.
C10NextStartedIsHigh ==
  \A n \in 1..Len(calls) : HighBehindTwoNormals(n) => NextStartedIs(n)

\* C10 as amended -- after a HIGH request H is admitted to a queue holding
\* NORMAL [N1, N2], the next request dequeued is H; H is the next request
\* started if its sequence is still registered at that moment, and is
\* never started otherwise.
C10NextDequeuedIsHigh ==
  \A n \in 1..Len(calls) :
    (HighBehindTwoNormals(n) /\ Len(dequeues) > calls[n].dequeuesBefore)
      => LET next == dequeues[calls[n].dequeuesBefore + 1]
         IN /\ next.requestId = calls[n].result.requestId
            /\ next.handed => NextStartedIs(n) /\ StartedSince(n) # {}
            /\ ~next.handed
                 => \A k \in 1..Len(bus) :
                      bus[k].type = SEQUENCE_STARTED
                        => bus[k].requestId # calls[n].result.requestId

\* A HIGH request admitted behind two NORMAL ones has been dequeued and
\* started.
C10Witness ==
  \E n \in 1..Len(calls) :
    /\ HighBehindTwoNormals(n)
    /\ Len(dequeues) > calls[n].dequeuesBefore
    /\ dequeues[calls[n].dequeuesBefore + 1].handed
    /\ \E k \in StartedSince(n) : bus[k].requestId = calls[n].result.requestId

\* Position on the bus of the event of this type for this request, 0 if
\* there is none.
EventIndex(type, requestId) ==
  IF \E k \in 1..Len(bus) : bus[k].type = type /\ bus[k].requestId = requestId
  THEN CHOOSE k \in 1..Len(bus) :
         bus[k].type = type /\ bus[k].requestId = requestId
  ELSE 0

\* The case of C11: the first three calls are NORMAL, NORMAL, HIGH, made
\* back-to-back on the idle orchestrator, on distinct requests, all
\* admitted, and the sequence of the HIGH one is still registered.
JumpFromIdle ==
  /\ Len(calls) >= 3
  /\ calls[1].priority = NORMAL /\ calls[2].priority = NORMAL
  /\ calls[3].priority = HIGH
  /\ \A n \in 1..3 : calls[n].result.success
  /\ calls[2].busBefore = calls[1].busAfter
  /\ calls[3].busBefore = calls[2].busAfter
  /\ calls[3].sequenceName \in registry
  /\ calls[1].data # calls[2].data

CompletedAt(n) == EventIndex(SEQUENCE_COMPLETED, calls[n].result.requestId)

\* C11 -- Priority jump from idle: N1, N2, H admitted back-to-back on an
\* idle orchestrator complete in the order H, N1, N2.
C11JumpFromIdle ==
  JumpFromIdle
    => /\ CompletedAt(1) > 0 => (CompletedAt(3) > 0 /\ CompletedAt(3) < CompletedAt(1))
       /\ CompletedAt(2) > 0 => (CompletedAt(1) > 0 /\ CompletedAt(1) < CompletedAt(2))

\* The resource of the request a bus event is about (request ids carry the
\* number of their call).
ResourceOf(requestId) ==
  extractResourceId(calls[requestId.nonce].sequenceName,
                    calls[requestId.nonce].data)

\* C12 -- Resource mutual exclusion: of two requests with the same
\* resourceId, the later one is handed to the executor only after the
\* terminal event of the earlier one, whatever the delegator resolved.
C12ResourceExclusion ==
  \A i, j \in 1..Len(bus) :
    ( /\ i < j
      /\ bus[i].type = SEQUENCE_STARTED
      /\ bus[j].type = SEQUENCE_STARTED
      /\ ResourceOf(bus[i].requestId) = ResourceOf(bus[j].requestId) )
      => EventIndex(SEQUENCE_COMPLETED, bus[i].requestId) \in (i + 1)..(j - 1)
         \/ EventIndex(SEQUENCE_FAILED, bus[i].requestId) \in (i + 1)..(j - 1)
         \/ EventIndex(SEQUENCE_CANCELLED, bus[i].requestId) \in (i + 1)..(j - 1)

\* Two requests on one resource have both been started, the later one
\* admitted with a conflict (override or queue) while the earlier one was
\* executing.
C12Witness ==
  \E i, j \in 1..Len(bus) :
    /\ i < j
    /\ bus[i].type = SEQUENCE_STARTED
    /\ bus[j].type = SEQUENCE_STARTED
    /\ ResourceOf(bus[i].requestId) = ResourceOf(bus[j].requestId)
    /\ calls[bus[j].requestId.nonce].busBefore >= i
    /\ \A k \in (i + 1)..calls[bus[j].requestId.nonce].busBefore :
         bus[k].type \notin TerminalTypes
    /\ \E k \in 1..Len(bus) :
         /\ bus[k].type = SEQUENCE_QUEUED
         /\ bus[k].requestId = bus[j].requestId

\* Call n was a HIGH call on a registered sequence, not a duplicate, that
\* the delegator resolved as override against the request that was
\* executing, which owned the resource.
Overrides(n) ==
  /\ Len(calls) >= n
  /\ calls[n].result.reason.text # "Sequence not found"
  /\ ~calls[n].result.isDuplicate
  /\ calls[n].priority = HIGH
  /\ calls[n].runningBefore # << >>
  /\ LET resourceId == extractResourceId(calls[n].sequenceName, calls[n].data)
         incumbent == calls[n].runningBefore[1]
     IN /\ resourceId \in DOMAIN calls[n].ownershipBefore
        /\ calls[n].ownershipBefore[resourceId].instanceId = incumbent.data.instanceId
        /\ calls[n].ownershipBefore[resourceId].priority # HIGH

\* The request that was executing when call n was made got no terminal
\* event other than SEQUENCE_CANCELLED{preempted} since.
IncumbentOnlyPreempted(n) ==
  \A k \in (calls[n].busBefore + 1)..Len(bus) :
    ( /\ bus[k].type \in TerminalTypes
      /\ bus[k].requestId = calls[n].runningBefore[1].requestId )
      => bus[k].type = SEQUENCE_CANCELLED /\ bus[k].reason = "preempted"

\* The request that was executing when call n was made has been cancelled
\* as preempted, and the request of call n has been started after that and
\* has completed.
PreemptedThenCompleted(n) ==
  \E i, j, k \in 1..Len(bus) :
    /\ Len(calls) >= n
    /\ calls[n].runningBefore # << >>
    /\ calls[n].busBefore < i /\ i < j /\ j < k
    /\ bus[i].type = SEQUENCE_CANCELLED
    /\ bus[i].reason = "preempted"
    /\ bus[i].requestId = calls[n].runningBefore[1].requestId
    /\ bus[j].type = SEQUENCE_STARTED
    /\ bus[j].requestId = calls[n].result.requestId
    /\ bus[k].type = SEQUENCE_COMPLETED
    /\ bus[k].requestId = calls[n].result.requestId

StartedOnlyAfterPreemption(n) ==
  \A j \in 1..Len(bus) :
    (bus[j].type = SEQUENCE_STARTED /\ bus[j].requestId = calls[n].result.requestId)
      => \E i \in (calls[n].busBefore + 1)..(j - 1) :
           /\ bus[i].type = SEQUENCE_CANCELLED
           /\ bus[i].reason = "preempted"
           /\ bus[i].requestId = calls[n].runningBefore[1].requestId

\* The request that was executing when call n was made has been cancelled
\* as preempted, and the request of call n has been started after that and
\* has ended with the terminal event of its own execution.
PreemptedThenEnded(n) ==
  \E i, j, k \in 1..Len(bus) :
    /\ Len(calls) >= n
    /\ calls[n].runningBefore # << >>
    /\ calls[n].busBefore < i /\ i < j /\ j < k
    /\ bus[i].type = SEQUENCE_CANCELLED
    /\ bus[i].reason = "preempted"
    /\ bus[i].requestId = calls[n].runningBefore[1].requestId
    /\ bus[j].type = SEQUENCE_STARTED
    /\ bus[j].requestId = calls[n].result.requestId
    /\ bus[k].type \in { SEQUENCE_COMPLETED, SEQUENCE_FAILED }
    /\ bus[k].requestId = calls[n].result.requestId

\* The request that was executing when call n was made has been cancelled
\* as preempted, and the request of call n has been dequeued after its
\* sequence was unregistered, and dropped.
PreemptedThenDropped(n) ==
  /\ Len(calls) >= n
  /\ calls[n].runningBefore # << >>
  /\ \E i \in (calls[n].busBefore + 1)..Len(bus) :
       /\ bus[i].type = SEQUENCE_CANCELLED
       /\ bus[i].reason = "preempted"
       /\ bus[i].requestId = calls[n].runningBefore[1].requestId
  /\ \E d \in 1..Len(dequeues) :
       /\ dequeues[d].requestId = calls[n].result.requestId
       /\ ~dequeues[d].handed
  /\ EventIndex(SEQUENCE_STARTED, calls[n].result.requestId) = 0

DrainStep == conts # << >> /\ conts' = Tail(conts)

\* The drain resumes after a rejected execution, the executor is idle and
\* requests are waiting.
DrainAfterFailure ==
  /\ DrainStep
  /\ Head(conts).settled = "rejected"
  /\ running = << >>
  /\ queue # << >>

\* Position in the queue of the first request whose sequence is still
\* registered, 0 if there is none.
FirstRegistered ==
  IF \E k \in 1..Len(queue) : queue[k].sequenceName \in registry
  THEN CHOOSE k \in 1..Len(queue) :
         /\ queue[k].sequenceName \in registry
         /\ \A m \in 1..(k - 1) : queue[m].sequenceName \notin registry
  ELSE 0

\* C14 -- A failed execution does not halt the drainer: when the drain
\* resumes after a rejected execution with requests still queued, the next
\* queued request is dequeued and handed to the executor.
C14NextHandedAfterFailure ==
  [][ DrainAfterFailure
      => /\ Len(dequeues') > Len(dequeues)
         /\ dequeues'[Len(dequeues) + 1].requestId = Head(queue).requestId
         /\ running' = << Head(queue) >>
    ]_vars

\* C14 as the code has it: the next queued request is dequeued; it is
\* handed to the executor if its sequence is still registered, otherwise it
\* is dropped and the drain goes on with the request after it, until one is
\* handed over or the queue is empty.
C14NextDequeuedAfterFailure ==
  [][ DrainAfterFailure
      => /\ Len(dequeues') > Len(dequeues)
         /\ dequeues'[Len(dequeues) + 1].requestId = Head(queue).requestId
         /\ Head(queue).sequenceName \in registry => running' = << Head(queue) >>
         /\ IF FirstRegistered = 0
            THEN running' = << >> /\ queue' = << >>
            ELSE /\ running' = << queue[FirstRegistered] >>
                 /\ queue' = SubSeq(queue, FirstRegistered + 1, Len(queue))
    ]_vars

\* A request admitted before another one failed has been started right
\* after that failure.
C14Witness ==
  \E i \in 1..(Len(bus) - 1) :
    /\ bus[i].type = SEQUENCE_FAILED
    /\ bus[i + 1].type = SEQUENCE_STARTED
    /\ calls[bus[i + 1].requestId.nonce].busAfter < i

\* C15 -- The drainer never throws on an executor failure: when the drain
\* resumes after a rejected execution, the promise of that
\* processSequenceQueue call resolves with {processed:true, success:false,
\* error} for the request's sequence, and a SEQUENCE_FAILED event for the
\* request is on the bus.
C15FailureResolvedAndEmitted ==
  [][ (DrainStep /\ Head(conts).settled = "rejected")
      => /\ Len(drainResults') > Len(drainResults)
         /\ drainResults'[Len(drainResults')]
              = QueueProcessingResult(TRUE, Head(conts).sequenceName, FALSE,
                                      Head(conts).error)
         /\ \E k \in 1..Len(bus') :
              /\ bus'[k].type = SEQUENCE_FAILED
              /\ bus'[k].requestId = Head(conts).requestId
    ]_vars

\* C16 -- Every dequeued request that was dropped because its sequence was
\* no longer registered has a SEQUENCE_FAILED event with reason
\* "missing-at-drain" on the bus.
C16MissingAtDrain ==
  \A d \in 1..Len(dequeues) :
    ~dequeues[d].handed
      => \E k \in 1..Len(bus) :
           /\ bus[k].type = SEQUENCE_FAILED
           /\ bus[k].requestId = dequeues[d].requestId
           /\ bus[k].reason = "missing-at-drain"

\* C17 -- Each admitted request is handed to the executor at most once, and
\* a dequeued request never reappears in the queue: the requests dequeued
\* so far are distinct, executeSequence was called once per request handed
\* over, no request has two SEQUENCE_STARTED events, and no dequeued
\* request is in the queue.
C17HandedAtMostOnce ==
  /\ \A c, d \in 1..Len(dequeues) :
       dequeues[c].requestId = dequeues[d].requestId => c = d
  /\ invocations.executeSequence
       = Cardinality({ d \in 1..Len(dequeues) : dequeues[d].handed })
  /\ \A i, j \in 1..Len(bus) :
       ( /\ bus[i].type = SEQUENCE_STARTED
         /\ bus[j].type = SEQUENCE_STARTED
         /\ bus[i].requestId = bus[j].requestId ) => i = j
  /\ \A d \in 1..Len(dequeues), k \in 1..Len(queue) :
       queue[k].requestId # dequeues[d].requestId

\* Two requests have been handed over, the first has settled and its drain
\* continuation has run, and the executor is idle again.
C17Witness ==
  /\ Len(dequeues) >= 2
  /\ \A d \in 1..Len(dequeues) : dequeues[d].handed
  /\ running = << >>
  /\ conts = << >>
  /\ Cardinality({ k \in 1..Len(bus) : bus[k].type \in TerminalTypes }) >= 2

\* Call n was admitted with success:true.
Admitted(n) == Len(calls) >= n /\ calls[n].result.success

\* The request of call n has been handed to the executor.
Handed(n) ==
  /\ Len(calls) >= n
  /\ \E d \in 1..Len(dequeues) :
       dequeues[d].requestId = calls[n].result.requestId /\ dequeues[d].handed

\* The sequence of call n has been unregistered.
Unregistered(n) == Len(calls) >= n /\ calls[n].sequenceName \notin registry

\* C18 -- Drain liveness: provided executions settle, every request
\* admitted with success:true is eventually handed to the executor, unless
\* its sequence has been unregistered, and no further startSequence call
\* is needed for that.
C18DrainLiveness ==
  \A n \in 1..MaxLiveCalls :
    Admitted(n) ~> (Handed(n) \/ Unregistered(n))

\* A request admitted by the last call while the executor was running has
\* been handed to the executor by a drain continuation.
C18Witness ==
  /\ Len(calls) = MaxLiveCalls
  /\ calls[MaxLiveCalls].runningBefore # << >>
  /\ Admitted(MaxLiveCalls)
  /\ Handed(MaxLiveCalls)

\* C19 -- No timeout: while the running execution has not settled, no step
\* (startSequence call, drain continuation, unregistration) dequeues a
\* request, starts an execution or ends the running one.
C19NoTimeout ==
  [][ (running # << >> /\ Len(conts') <= Len(conts))
      => /\ running' = running
         /\ dequeues' = dequeues
         /\ invocations'.executeSequence = invocations.executeSequence
         /\ \A k \in NewEventIndexes : bus'[k].type # SEQUENCE_STARTED
    ]_vars

\* An execution is still running while the calls are used up and two
\* admitted requests wait behind it.
C19Witness ==
  /\ running # << >>
  /\ Len(queue) >= 2
  /\ Len(calls) = MaxSerialCalls

\* C20 -- Admission is not blocked by a running sequence: a call on a
\* registered sequence made while the executor is running, neither a
\* duplicate nor rejected, returns success:true, makes the queue one
\* longer, and neither dequeues a request nor starts an execution.
C20AdmittedWhileRunning ==
  [][ ( /\ StartStep
        /\ running # << >>
        /\ NewCall.sequenceName \in registry
        /\ ~ReportedDuplicate(NewCall.sequenceName, NewCall.data, NewCall.priority)
        /\ ResolutionNow(NewCall.sequenceName, NewCall.data, NewCall.priority)
             # "reject" )
      => /\ NewCall.result.success
         /\ Len(queue') = Len(queue) + 1
         /\ dequeues' = dequeues
         /\ running' = running
         /\ invocations'.executeSequence = invocations.executeSequence
         /\ \A k \in NewEventIndexes : bus'[k].type # SEQUENCE_STARTED
    ]_vars

\* The last call was admitted while another request was executing, which
\* still is, and the new request waits in the queue.
C20Witness ==
  /\ Len(calls) >= 2
  /\ calls[Len(calls)].result.success
  /\ running # << >>
  /\ running[1].requestId # calls[Len(calls)].result.requestId
  /\ \E k \in 1..Len(queue) :
       queue[k].requestId = calls[Len(calls)].result.requestId
  /\ EventIndex(SEQUENCE_STARTED, running[1].requestId)
       <= calls[Len(calls)].busBefore

\* C21 -- Every call on a registered sequence that the validator reports
\* as not a duplicate leaves the request's hash in the dedup window when it
\* returns, whether the request is then admitted or rejected.
C21HashRecorded ==
  [][ ( /\ StartStep
        /\ NewCall.sequenceName \in registry
        /\ ~ReportedDuplicate(NewCall.sequenceName, NewCall.data, NewCall.priority) )
      => canonicalHash(NewCall.sequenceName, NewCall.data, NewCall.priority)
           \in dedupWindow'
    ]_vars

\* C22 -- A request admitted while the executor is idle is only scheduled
\* for the next turn: the call dequeues nothing, does not invoke
\* executeSequence, and the admitted request is in the queue when the call
\* returns and when its SEQUENCE_QUEUED is emitted (queueLength >= 1).
C22DrainNextTurn ==
  [][ (StartStep /\ running = << >> /\ NewCall.result.success)
      => /\ dequeues' = dequeues
         /\ invocations'.executeSequence = invocations.executeSequence
         /\ running' = << >>
         /\ \E k \in 1..Len(queue') :
              queue'[k].requestId = NewCall.result.requestId
         /\ \A k \in NewEventIndexes :
              bus'[k].type = SEQUENCE_QUEUED => bus'[k].queueLength >= 1
    ]_vars

\* C25 -- Queue wait time is recorded only for requests handed to the
\* executor: the number of updateQueueWaitTime calls equals the number of
\* dequeued requests that were handed over.
C25WaitTimeOnlyForHanded ==
  stats.waitTimeUpdates
    = Cardinality({ d \in 1..Len(dequeues) : dequeues[d].handed })

\* A step that is a processSequenceQueue call made from outside.
DrainCallStep == drainCalls' = drainCalls + 1

\* C23 -- processSequenceQueue is a no-op when the queue is empty or the
\* executor is running: called from outside or by the drain continuation
\* in such a state it resolves with {processed:false}, and the queue, the
\* statistics, the executor, the dequeue history and the bus stay as they
\* are.
C23DrainNoOp ==
  [][ ((DrainStep \/ DrainCallStep) /\ (queue = << >> \/ running # << >>))
      => /\ queue' = queue
         /\ stats' = stats
         /\ running' = running
         /\ dequeues' = dequeues
         /\ invocations' = invocations
         /\ bus' = bus
         /\ Len(drainResults') = Len(drainResults) + (IF DrainStep THEN 2 ELSE 1)
         /\ drainResults'[Len(drainResults) + 1] = [ processed |-> FALSE ]
    ]_vars

\* processSequenceQueue has been called from outside, a drain call has
\* returned {processed:false}, and the executor is running with requests
\* waiting in the queue.
C23Witness ==
  /\ \E k \in 1..Len(drainResults) : drainResults[k] = [ processed |-> FALSE ]
  /\ running # << >>
  /\ queue # << >>
  /\ conts = << >>
  /\ drainCalls >= 1

\* C24 -- A dequeued request whose sequence is missing from the registry is
\* never passed to executeSequence, and the drain goes on in the same step:
\* from an idle executor and a queue of k such requests followed by a
\* registered one, the step ends with the registered one handed to the
\* executor after exactly k + 1 dequeues.
C24MissingDropped ==
  /\ [](\A d \in 1..Len(dequeues) :
          ~dequeues[d].handed
            => EventIndex(SEQUENCE_STARTED, dequeues[d].requestId) = 0)
  /\ [][ (DrainStep /\ running = << >> /\ FirstRegistered > 0)
         => /\ running' = << queue[FirstRegistered] >>
            /\ queue' = SubSeq(queue, FirstRegistered + 1, Len(queue))
            /\ Len(dequeues') = Len(dequeues) + FirstRegistered
            /\ \A m \in 1..FirstRegistered :
                 dequeues'[Len(dequeues) + m]
                   = [ requestId |-> queue[m].requestId,
                       handed |-> (m = FirstRegistered) ]
            /\ invocations'.executeSequence = invocations.executeSequence + 1
       ]_vars

\* A request has been dropped as missing and the request behind it is the
\* one the executor is running.
C24Witness ==
  \E d \in 1..(Len(dequeues) - 1) :
    /\ ~dequeues[d].handed
    /\ dequeues[d + 1].handed
    /\ running # << >>
    /\ running[1].requestId = dequeues[d + 1].requestId

\* C26 -- createExecutionContext(request) returns the base context
\* augmented with the sequence registered under request.sequenceName, the
\* request's priority, and executionType IMMEDIATE for HIGH and
\* CONSECUTIVE for NORMAL and CHAINED; it throws when the sequence is not
\* registered.
C26ExecutionContext ==
  [][ (context' # context)
      => LET outcome == context'[1]
             request == outcome.request
         IN IF request.sequenceName \notin registry
            THEN outcome.threw /\ outcome.returned = << >>
            ELSE /\ ~outcome.threw
                 /\ DOMAIN outcome.returned[1]
                      = (DOMAIN baseExecutionContext(request)) \cup AugmentedKeys
                 /\ \A k \in DOMAIN baseExecutionContext(request) :
                      outcome.returned[1][k] = baseExecutionContext(request)[k]
                 /\ outcome.returned[1].sequence
                      = registryGet(State, request.sequenceName)
                 /\ outcome.returned[1].priority = request.priority
                 /\ outcome.returned[1].executionType = "IMMEDIATE"
                      <=> request.priority = HIGH
                 /\ outcome.returned[1].executionType = "CONSECUTIVE"
                      <=> request.priority \in { NORMAL, CHAINED }
    ]_vars

\* A context has been returned for a HIGH request.
C26Witness ==
  /\ context # << >>
  /\ ~context[1].threw
  /\ context[1].request.priority = HIGH
  /\ context[1].returned[1].executionType = "IMMEDIATE"

\* The request built by the step's call, wherever the call left it.
NewRequest ==
  CHOOSE r \in Range(queue') \cup Range(running') :
    r.requestId = NewCall.result.requestId

\* The metadata and the conflict result the orchestrator computes for the
\* step's call.
NewMetadata ==
  extractOrchestrationMetadata(State, NewCall.sequenceName, NewCall.data)

NewConflictResult ==
  checkResourceConflicts(NewMetadata.st, NewMetadata.metadata,
                         NewCall.priority).conflictResult

\* C27 -- The request enqueued by an admitted call carries the metadata
\* computed during that admission (instanceId, symphonyName, resourceId,
\* conflictResult, and the hash of the deduplication check) under those
\* keys, whatever the caller supplied under them, and every other key of
\* the caller's data unchanged.
C27RequestMetadata ==
  [][ (StartStep /\ NewCall.result.success)
      => /\ \E r \in Range(queue') \cup Range(running') :
              r.requestId = NewCall.result.requestId
         /\ DOMAIN NewRequest.data = (DOMAIN NewCall.data) \cup MetadataKeys
         /\ NewRequest.data.instanceId = NewMetadata.metadata.instanceId
         /\ NewRequest.data.instanceId
              = createSequenceInstanceId(NewCall.sequenceName, NewCall.data,
                                         instanceCounter + 1)
         /\ NewRequest.data.symphonyName = extractSymphonyName(NewCall.sequenceName)
         /\ NewRequest.data.resourceId
              = extractResourceId(NewCall.sequenceName, NewCall.data)
         /\ NewRequest.data.conflictResult = NewConflictResult
         /\ NewRequest.data.sequenceHash
              = deduplicateSequenceRequest(State, NewCall.sequenceName,
                                           NewCall.data, NewCall.priority).hash
         /\ \A k \in (DOMAIN NewCall.data) \ MetadataKeys :
              NewRequest.data[k] = NewCall.data[k]
    ]_vars

\* An admitted request whose caller supplied a symphonyName and a
\* resourceId of its own carries the orchestrator's values and the
\* caller's other keys.
C27Witness ==
  \E n \in 1..Len(calls) :
    \E r \in Range(queue) \cup Range(running) :
      /\ r.requestId = calls[n].result.requestId
      /\ "symphonyName" \in DOMAIN calls[n].data
      /\ r.data.symphonyName # calls[n].data.symphonyName
      /\ r.data.resourceId # calls[n].data.resourceId
      /\ r.data.note = calls[n].data.note

\* C28 -- No lost wake-up: whenever no drain continuation is pending, a
\* non-empty queue implies that the executor is running.
C28NoLostWakeUp ==
  (conts = << >> /\ queue # << >>) => running # << >>

\* After a settlement and its drain continuation, the executor runs again
\* with requests still waiting.
C28Witness ==
  /\ conts = << >>
  /\ queue # << >>
  /\ running # << >>
  /\ \E k \in 1..Len(bus) : bus[k].type \in TerminalTypes

\* C29 -- A failed admission has no queue effect: a call that returns
\* success:false, whatever the cause, leaves the queue as it was and
\* starts no execution.
C29FailedAdmissionNoEffect ==
  [][ (StartStep /\ ~NewCall.result.success)
      => /\ queue' = queue
         /\ dequeues' = dequeues
         /\ running' = running
         /\ invocations'.executeSequence = invocations.executeSequence
    ]_vars

\* Number of calls so far whose result satisfies the test.
CallsWith(Test(_)) == Cardinality({ n \in 1..Len(calls) : Test(calls[n].result) })

Succeeded(result) == result.success
FailedNotDuplicate(result) == ~result.success /\ ~result.isDuplicate

\* C30 -- Statistics accounting of admissions: recordSequenceQueued has
\* been called once per success:true result and once per enqueue, and
\* recordError once per success:false result that is not a duplicate.
C30AdmissionAccounting ==
  /\ stats.queued = CallsWith(Succeeded)
  /\ stats.queued = invocations.enqueue
  /\ stats.errors = CallsWith(FailedNotDuplicate)

\* One call was admitted and another failed without being a duplicate.
C30Witness ==
  /\ CallsWith(Succeeded) >= 1
  /\ CallsWith(FailedNotDuplicate) >= 1


\* The orchestrator's resolution for a delegator resolution, as the claim
\* states it.
StatedResolution(resolution) ==
  CASE resolution = "override" -> "ALLOW"
    [] resolution = "reject" -> "REJECT"
    [] resolution = "queue" -> "QUEUE"
    [] OTHER -> "ALLOW"

\* C31 -- checkResourceConflicts converts the delegator's resolution as
\* override -> ALLOW, reject -> REJECT, queue -> QUEUE and anything else ->
\* ALLOW, and the conflict type is SAME_RESOURCE exactly when the
\* delegator reports hasConflict; a call whose delegator resolution is
\* reject enqueues nothing, so the conflictResult stored in an enqueued
\* request has resolution ALLOW or QUEUE, never REJECT, and an override is
\* stored as ALLOW like a plain allow, told apart by hasConflict alone.
C31ConflictConversion ==
  /\ [][ (conversion' # conversion)
         => LET delegatorResult == conversion'[1].delegatorResult
                conflictResult == conversion'[1].conflictResult
            IN /\ conflictResult.resolution
                    = StatedResolution(delegatorResult.resolution)
               /\ conflictResult.hasConflict = delegatorResult.hasConflict
               /\ conflictResult.conflictType
                    = (IF delegatorResult.hasConflict
                       THEN "SAME_RESOURCE" ELSE "NONE") ]_vars
  /\ [][ ( /\ StartStep
           /\ NewCall.sequenceName \in registry
           /\ ~ReportedDuplicate(NewCall.sequenceName, NewCall.data,
                                 NewCall.priority) )
         => LET resolution == ResolutionNow(NewCall.sequenceName, NewCall.data,
                                            NewCall.priority)
            IN IF resolution = "reject"
               THEN /\ ~NewCall.result.success
                    /\ queue' = queue
                    /\ running' = running
               ELSE /\ NewCall.result.success
                    /\ NewRequest.data.conflictResult.resolution
                         = StatedResolution(resolution)
                    /\ NewRequest.data.conflictResult.hasConflict
                         = (resolution # "allow") ]_vars
  /\ [](\A r \in Range(queue) \cup Range(running) :
          /\ r.data.conflictResult.resolution \in { "ALLOW", "QUEUE" }
          /\ (r.data.conflictResult.conflictType = "SAME_RESOURCE")
               <=> r.data.conflictResult.hasConflict
          /\ r.data.conflictResult.conflictType \in { "SAME_RESOURCE", "NONE" })

\* An answer the orchestrator does not know has been converted to ALLOW,
\* and a request admitted by override is stored with ALLOW and hasConflict
\* next to one admitted by a plain allow.
C31Witness ==
  /\ conversion # << >>
  /\ conversion[1].delegatorResult.resolution = "defer"
  /\ conversion[1].delegatorResult.hasConflict
  /\ conversion[1].conflictResult.resolution = "ALLOW"
  /\ \E r, q \in Range(queue) \cup Range(running) :
       /\ r.data.conflictResult.resolution = "ALLOW"
       /\ r.data.conflictResult.hasConflict
       /\ q.data.conflictResult.resolution = "ALLOW"
       /\ ~q.data.conflictResult.hasConflict

====
